---- MODULE Spec2Model ----
(***************************************************************************)
(* Model of daricat/qosf-mentorship: the Fourier transform circuits        *)
(* (quantum_fourier_transform.py), the Draper adder (drapper.py) and the   *)
(* gate basis transformer (gate_basis_transformer.py).                     *)
(*                                                                         *)
(* A circuit is a record [num_qubits, num_clbits, data], data being the    *)
(* sequence of instructions [name, qubits, clbits, params].  Qubit 0 is    *)
(* the least significant bit of a basis state index.                       *)
(*                                                                         *)
(* An angle is kept exactly, as the record [kind |-> "angle", of, num,     *)
(* den] that stands for 2*pi*num / 2^den.  The Euler angles of a matrix    *)
(* are kept symbolically (kind "theta", "phi" or "lambda" of a gate).      *)
(*                                                                         *)
(* The noiseless simulator keeps the state vector exactly, unnormalised:   *)
(* with N = 2^n and w = exp(2*pi*i/N) an amplitude is an integer           *)
(* polynomial in w of degree below N/2 (w^(N/2) = -1).  A basis state has  *)
(* probability zero exactly when its polynomial is zero.                   *)
(***************************************************************************)
EXTENDS Integers, Sequences, FiniteSets, TLC

\* Largest operand handed to the adder.
MaxVal == 5

\* Largest explicit qubit count handed to construct_adder / construct_qft.
MaxN == 3

-----------------------------------------------------------------------------
(* Integer helpers                                                          *)

RECURSIVE Pow2(_)
Pow2(k) == IF k <= 0 THEN 1 ELSE 2 * Pow2(k - 1)

\* int.bit_length()
RECURSIVE bit_length(_)
bit_length(v) == IF v = 0 THEN 0 ELSE 1 + bit_length(v \div 2)

\* max(x, y, z)
max(x, y, z) ==
    LET m == IF x >= y THEN x ELSE y
    IN  IF m >= z THEN m ELSE z

\* number & (1 << j), as 0 or 1
Bit(number, j) == (number \div Pow2(j)) % 2

SetBit(y, q)   == IF Bit(y, q) = 1 THEN y ELSE y + Pow2(q)
ClearBit(y, q) == IF Bit(y, q) = 1 THEN y - Pow2(q) ELSE y
FlipBit(y, q)  == IF Bit(y, q) = 1 THEN y - Pow2(q) ELSE y + Pow2(q)

\* the sequences of ss, one after the other
RECURSIVE Concat(_)
Concat(ss) ==
    IF Len(ss) = 0 THEN <<>>
    ELSE IF Len(ss) = 1 THEN ss[1]
    ELSE LET h == Len(ss) \div 2
         IN  Concat(SubSeq(ss, 1, h)) \o Concat(SubSeq(ss, h + 1, Len(ss)))

-----------------------------------------------------------------------------
(* Angles and instructions                                                  *)

Angle(num, den) == [kind |-> "angle", of |-> "", num |-> num, den |-> den]

Zero == Angle(0, 0)

\* AddTurn with the exponent one too small: 2 * np.pi / (2 ** (i - j))
AddTurnOffByOne(x, k) ==
    LET d == IF x.den >= k - 1 THEN x.den ELSE k - 1
    IN  Angle(x.num * Pow2(d - x.den) + Pow2(d - (k - 1)), d)

\* angle += 2 * np.pi / (2 ** k)
AddTurn(x, k) ==
    LET d == IF x.den >= k THEN x.den ELSE k
    IN  Angle(x.num * Pow2(d - x.den) + Pow2(d - k), d)

Neg(x) == [x EXCEPT !.num = -x.num]

Half(x) == [x EXCEPT !.den = x.den + 1]

Instr(name, qubits, clbits, params) ==
    [name |-> name, qubits |-> qubits, clbits |-> clbits, params |-> params]

\* QuantumCircuit(num_qubits, num_clbits)
QuantumCircuit(nq, nc) == [num_qubits |-> nq, num_clbits |-> nc, data |-> <<>>]

\* circuit.compose(other, inplace=True): other's instructions, on the same
\* qubit indices, after circuit's own
Compose(circuit, other) == [circuit EXCEPT !.data = circuit.data \o other.data]

-----------------------------------------------------------------------------
(* quantum_fourier_transform.py                                             *)

\* _create_cphase_gate: circuit.cp(2*pi / 2**k, control, target)
CPhaseGate(control, target, k) ==
    Instr("cp", <<control, target>>, <<>>, <<Angle(1, k)>>)

\* the body of the loop over i: h(i), then cp from every later qubit j
QFTRow(i, n_qubits) ==
    <<Instr("h", <<i>>, <<>>, <<>>)>> \o
    [m \in 1..(n_qubits - i - 1) |-> CPhaseGate(i + m, i, m + 1)]

\* the swap loop
QFTSwaps(n_qubits) ==
    [m \in 1..(n_qubits \div 2) |->
        Instr("swap", <<m - 1, n_qubits - m>>, <<>>, <<>>)]

construct_qft(n_qubits) ==
    [QuantumCircuit(n_qubits, 0) EXCEPT
        !.data = Concat([m \in 1..n_qubits |-> QFTRow(m - 1, n_qubits)])
                 \o QFTSwaps(n_qubits)]

\* InverseGate that keeps the angle of cp
InverseGateSameAngle(inst) == inst

\* Gate.inverse() of the gates a QFT circuit holds: h and swap are their own
\* inverses, cp(t) has the inverse cp(-t)
InverseGate(inst) ==
    IF inst.name = "cp"
    THEN [inst EXCEPT !.params = <<Neg(inst.params[1])>>]
    ELSE inst

\* QuantumCircuit.inverse(): the inverted gates in reversed order
Inverse(circuit) ==
    [circuit EXCEPT
        !.data = [m \in 1..Len(circuit.data) |->
                    InverseGate(circuit.data[Len(circuit.data) + 1 - m])]]

construct_inverse_qft(n_qubits) == Inverse(construct_qft(n_qubits))

-----------------------------------------------------------------------------
(* drapper.py                                                               *)

\* the inner loop of _binary_to_phase_angles for qubit i, after j = 0..upto
RECURSIVE AngleAcc(_, _, _)
AngleAcc(number, i, upto) ==
    IF upto < 0 THEN Zero
    ELSE LET prev == AngleAcc(number, i, upto - 1)
         IN  IF Bit(number, upto) = 1 THEN AddTurn(prev, i - upto + 1) ELSE prev

\* angles[i] is element i + 1 of the sequence
binary_to_phase_angles(number, n_qubits) ==
    [m \in 1..n_qubits |-> AngleAcc(number, m - 1, m - 1)]

NoCircuit == [num_qubits |-> -1, num_clbits |-> -1, data |-> <<>>]

\* TooLarge with > for >=
TooLargeStrict(va, vb, n_qubits) == va > Pow2(n_qubits) \/ vb > Pow2(n_qubits)

\* the range test that opens construct_adder
TooLarge(va, vb, n_qubits) == va >= Pow2(n_qubits) \/ vb >= Pow2(n_qubits)

\* for i in range(n_qubits): if a & (1 << i): circuit.x(i)
RECURSIVE PrepareA(_, _)
PrepareA(va, upto) ==
    IF upto < 0 THEN <<>>
    ELSE PrepareA(va, upto - 1) \o
         (IF Bit(va, upto) = 1 THEN <<Instr("x", <<upto>>, <<>>, <<>>)>> ELSE <<>>)

\* for i in range(n_qubits): circuit.p(angles[i], i)
PhaseGates(angles, n_qubits) ==
    [m \in 1..n_qubits |-> Instr("p", <<m - 1>>, <<>>, <<angles[m]>>)]

\* circuit.measure(range(n_qubits), range(n_qubits)): one measure per qubit
MeasureAll(n_qubits) ==
    [m \in 1..n_qubits |-> Instr("measure", <<m - 1>>, <<m - 1>>, <<>>)]

\* construct_adder: [err, circuit]; on the range error nothing is allocated
construct_adder(va, vb, n_qubits) ==
    IF TooLarge(va, vb, n_qubits)
    THEN [err |-> "ValueError", circuit |-> NoCircuit]
    ELSE LET c0 == QuantumCircuit(n_qubits, n_qubits)
             c1 == [c0 EXCEPT !.data = PrepareA(va, n_qubits - 1)]
             c2 == Compose(c1, construct_qft(n_qubits))
             angles == binary_to_phase_angles(vb, n_qubits)
             c3 == [c2 EXCEPT !.data = c2.data \o PhaseGates(angles, n_qubits)]
             c4 == Compose(c3, construct_inverse_qft(n_qubits))
             c5 == [c4 EXCEPT !.data = c4.data \o MeasureAll(n_qubits)]
         IN  [err |-> "none", circuit |-> c5]

\* the width quantum_sum selects
SumWidth(va, vb) == max(bit_length(va + vb), bit_length(va), bit_length(vb))

\* quantum_sum: [err, circuit, n_qubits]
quantum_sum(va, vb) ==
    LET n == SumWidth(va, vb)
        r == construct_adder(va, vb, n)
    IN  [err |-> r.err, circuit |-> r.circuit, n_qubits |-> n]

-----------------------------------------------------------------------------
(* The noiseless simulator (backend.run in test_quantum_adder)              *)

Dim(n) == Pow2(n)

\* number of coefficients of an amplitude
HalfDim(n) == IF n = 0 THEN 1 ELSE Pow2(n - 1)

PolyZero(n) == [i \in 0..(HalfDim(n) - 1) |-> 0]

PolyOne(n) == [i \in 0..(HalfDim(n) - 1) |-> IF i = 0 THEN 1 ELSE 0]

PolyAdd(p, q) == [i \in DOMAIN p |-> p[i] + q[i]]

PolySub(p, q) == [i \in DOMAIN p |-> p[i] - q[i]]

\* p * w^s, with w^HalfDim = -1
MulOmega(p, s, n) ==
    LET h == HalfDim(n)
    IN  [i \in DOMAIN p |->
            LET j == i - s
                r == j % h
                k == (j - r) \div h
            IN  IF k % 2 = 0 THEN p[r] ELSE 0 - p[r]]

\* the power of w a rotation by the angle multiplies with (den <= n)
PhaseExp(angle, n) == (angle.num * Pow2(n - angle.den)) % Dim(n)

SwapBits(y, i, j) ==
    IF Bit(y, i) = Bit(y, j) THEN y ELSE FlipBit(FlipBit(y, i), j)

\* the basis state |x> of n qubits
BasisState(x, n) ==
    [y \in 0..(Dim(n) - 1) |-> IF y = x THEN PolyOne(n) ELSE PolyZero(n)]

\* one unitary gate on the state vector (h without its factor 1/sqrt(2))
ApplyGate(state, inst, n) ==
    LET q == inst.qubits[1]
    IN  CASE inst.name = "x" ->
                [y \in DOMAIN state |-> state[FlipBit(y, q)]]
          [] inst.name = "h" ->
                [y \in DOMAIN state |->
                    IF Bit(y, q) = 0
                    THEN PolyAdd(state[y], state[SetBit(y, q)])
                    ELSE PolySub(state[ClearBit(y, q)], state[y])]
          [] inst.name = "p" ->
                [y \in DOMAIN state |->
                    IF Bit(y, q) = 1
                    THEN MulOmega(state[y], PhaseExp(inst.params[1], n), n)
                    ELSE state[y]]
          [] inst.name = "cp" ->
                [y \in DOMAIN state |->
                    IF Bit(y, q) = 1 /\ Bit(y, inst.qubits[2]) = 1
                    THEN MulOmega(state[y], PhaseExp(inst.params[1], n), n)
                    ELSE state[y]]
          [] inst.name = "swap" ->
                [y \in DOMAIN state |-> state[SwapBits(y, q, inst.qubits[2])]]

\* the state after qubit q was measured as v
Project(state, q, v, n) ==
    [y \in DOMAIN state |-> IF Bit(y, q) = v THEN state[y] ELSE PolyZero(n)]

\* the basis states of non-zero probability
Support(state, n) == {y \in DOMAIN state : state[y] # PolyZero(n)}

\* the integer the classical bits spell, bit i being worth 2^i
RECURSIVE BitsValue(_, _)
BitsValue(bits, upto) ==
    IF upto < 0 THEN 0 ELSE bits[upto] * Pow2(upto) + BitsValue(bits, upto - 1)

-----------------------------------------------------------------------------
(* gate_basis_transformer.py                                                *)

\* self.basis_gates
basis_gates == {"cx", "id", "rz", "sx", "x"}

\* an instruction of the library definition of a gate, on its own qubits
Def1(name, q, params) == Instr(name, <<q>>, <<>>, params)

\* temp_circuit.decompose(): the gate, appended on the local qubits
\* 0..k-1, replaced by one level of its library definition
\* (swap, cp, ccx and cswap are the library's SwapGate, CPhaseGate, CCXGate
\* and CSwapGate); a gate without a definition is left as it is
Decompose(gate) ==
    LET cx(c, t) == Instr("cx", <<c, t>>, <<>>, <<>>)
    IN  CASE gate.name = "swap" -> <<cx(0, 1), cx(1, 0), cx(0, 1)>>
          [] gate.name = "cp" ->
                <<Def1("p", 0, <<Half(gate.params[1])>>),
                  cx(0, 1),
                  Def1("p", 1, <<Neg(Half(gate.params[1]))>>),
                  cx(0, 1),
                  Def1("p", 1, <<Half(gate.params[1])>>)>>
          [] gate.name = "ccx" ->
                <<Def1("h", 2, <<>>), cx(1, 2), Def1("tdg", 2, <<>>), cx(0, 2),
                  Def1("t", 2, <<>>), cx(1, 2), Def1("tdg", 2, <<>>), cx(0, 2),
                  Def1("t", 1, <<>>), Def1("t", 2, <<>>), Def1("h", 2, <<>>),
                  cx(0, 1), Def1("t", 0, <<>>), Def1("tdg", 1, <<>>), cx(0, 1)>>
          [] gate.name = "cswap" ->
                <<cx(2, 1), Instr("ccx", <<0, 1, 2>>, <<>>, <<>>), cx(2, 1)>>
          [] OTHER ->
                <<Instr(gate.name, [m \in 1..Len(gate.qubits) |-> m - 1],
                        <<>>, gate.params)>>

\* self.euler_decomposer.angles(matrix): the angle `kind` of the gate's
\* matrix, which the gate's name and parameter determine
Euler(kind, gate) ==
    IF gate.params = <<>>
    THEN [kind |-> kind, of |-> gate.name, num |-> 0, den |-> 0]
    ELSE [kind |-> kind, of |-> gate.name,
          num |-> gate.params[1].num, den |-> gate.params[1].den]

\* decompose_single_qubit_gate with theta and phi taken in the wrong order
decompose_single_qubit_gate_swapped(gate, qubit) ==
    <<Instr("rz", <<qubit>>, <<>>, <<Euler("theta", gate)>>),
      Instr("sx", <<qubit>>, <<>>, <<>>),
      Instr("rz", <<qubit>>, <<>>, <<Euler("phi", gate)>>),
      Instr("sx", <<qubit>>, <<>>, <<>>),
      Instr("rz", <<qubit>>, <<>>, <<Euler("lambda", gate)>>)>>

\* _decompose_single_qubit_gate: (gate, [qubit]) for the five gates of
\* temp_circuit
decompose_single_qubit_gate(gate, qubit) ==
    <<Instr("rz", <<qubit>>, <<>>, <<Euler("phi", gate)>>),
      Instr("sx", <<qubit>>, <<>>, <<>>),
      Instr("rz", <<qubit>>, <<>>, <<Euler("theta", gate)>>),
      Instr("sx", <<qubit>>, <<>>, <<>>),
      Instr("rz", <<qubit>>, <<>>, <<Euler("lambda", gate)>>)>>

\* OriginalQubit without the lookup in the node's qubits
OriginalQubitLocal(qubits, q) == q

\* qubits[temp_circuit.qubits.index(q)] for the local qubit q
OriginalQubit(qubits, q) == qubits[q + 1]

\* what the generic branch appends for one instruction of the decomposition
MapBack(inst, qubits) ==
    IF Len(inst.qubits) = 1
    THEN decompose_single_qubit_gate(inst, OriginalQubit(qubits, inst.qubits[1]))
    ELSE <<Instr(inst.name,
                 [m \in 1..Len(inst.qubits) |-> OriginalQubit(qubits, inst.qubits[m])],
                 <<>>, inst.params)>>

\* an appended instruction together with the input node (src) and the
\* position in that node's decomposition (pos, 0 outside the generic
\* branch) it was appended for
Tag(insts, src, pos) ==
    [m \in 1..Len(insts) |-> [inst |-> insts[m], src |-> src, pos |-> pos]]

\* the body of the loop over dag.op_nodes() for the node at index src
TransformNode(node, src) ==
    IF node.name = "measure" THEN <<>>
    ELSE IF node.name \in basis_gates
    THEN Tag(<<Instr(node.name, node.qubits, <<>>, node.params)>>, src, 0)
    ELSE IF Len(node.qubits) = 1
    THEN Tag(decompose_single_qubit_gate(node, node.qubits[1]), src, 0)
    ELSE IF node.name = "cx"
    THEN Tag(<<Instr(node.name, node.qubits, <<>>, node.params)>>, src, 0)
    ELSE LET decomposed == Decompose(node)
         IN  Concat([m \in 1..Len(decomposed) |->
                        Tag(MapBack(decomposed[m], node.qubits), src, m)])

\* op_nodes visiting the latest instruction first
op_nodes_reversed(c) == [m \in 1..Len(c.data) |-> Len(c.data) + 1 - m]

\* circuit_to_dag(circuit).op_nodes(): the indices of the instructions in
\* the order the nodes are visited; circuit_to_dag adds one node per
\* instruction, in the order of circuit.data, and op_nodes lists the nodes
\* in the order they were added
op_nodes(c) == [m \in 1..Len(c.data) |-> m]

\* the instructions transform_circuit appends, in order
TransformTrace(c) ==
    LET nodes == op_nodes(c)
    IN  Concat([m \in 1..Len(nodes) |-> TransformNode(c.data[nodes[m]], nodes[m])])

transform_circuit(c) ==
    LET trace == TransformTrace(c)
    IN  [QuantumCircuit(c.num_qubits, c.num_clbits) EXCEPT
            !.data = [m \in 1..Len(trace) |-> trace[m].inst]]

\* get_gate_counts: names outside the basis are not counted
get_gate_counts(c) ==
    [g \in basis_gates |->
        Cardinality({m \in 1..Len(c.data) : c.data[m].name = g})]

-----------------------------------------------------------------------------
(* State                                                                    *)

VARIABLES
    entry,      \* the function called: "quantum_sum", "construct_adder",
                \* "qft" or "transform"
    a, b,       \* the operands of the adder
    n_qubits,   \* the qubit count passed in, or selected by quantum_sum
    basis,      \* the basis state the simulator starts in
    circuit,    \* the circuit returned, NoCircuit before and on an error
    err,        \* "none" or the exception raised
    pc,         \* "call", "forward", "built", "run", "done", "error",
                \* "transformed", "counted", "twice"
    ip,         \* index of the next instruction the simulator executes
    psi,        \* the simulator's state vector
    clbits,     \* the classical register, as a sequence (bit i at i + 1)
    base_circuit,   \* transform_circuit(circuit), NoCircuit before
    emitted,        \* for each instruction of base_circuit: its [src, pos]
    gate_counts,    \* get_gate_counts(base_circuit), NoCounts before
    twice,          \* transform_circuit(base_circuit), NoCircuit before
    twice_counts    \* get_gate_counts(twice), NoCounts before

tvars == <<base_circuit, emitted, gate_counts, twice, twice_counts>>

vars == <<entry, a, b, n_qubits, basis, circuit, err, pc, ip, psi, clbits, tvars>>

NoCounts == [g \in basis_gates |-> -1]

\* the transformer has not been called
TransformerIdle ==
    /\ base_circuit = NoCircuit
    /\ emitted = <<>>
    /\ gate_counts = NoCounts
    /\ twice = NoCircuit
    /\ twice_counts = NoCounts

NoState == <<>>

\* the value the classical register spells
Outcome == BitsValue([i \in 0..(Len(clbits) - 1) |-> clbits[i + 1]], Len(clbits) - 1)

-----------------------------------------------------------------------------
(* Calls                                                                    *)

\* quantum_sum(a, b)
QuantumSum ==
    /\ pc = "call" /\ entry = "quantum_sum"
    /\ LET r == quantum_sum(a, b)
       IN  /\ n_qubits' = r.n_qubits
           /\ circuit' = r.circuit
           /\ err' = r.err
           /\ pc' = IF r.err = "none" THEN "built" ELSE "error"
    /\ UNCHANGED <<entry, a, b, basis, ip, psi, clbits, tvars>>

\* construct_adder(a, b, n_qubits)
ConstructAdder ==
    /\ pc = "call" /\ entry = "construct_adder"
    /\ LET r == construct_adder(a, b, n_qubits)
       IN  /\ circuit' = r.circuit
           /\ err' = r.err
           /\ pc' = IF r.err = "none" THEN "built" ELSE "error"
    /\ UNCHANGED <<entry, a, b, n_qubits, basis, ip, psi, clbits, tvars>>

\* construct_qft(n_qubits)
ConstructQFT ==
    /\ pc = "call" /\ entry = "qft"
    /\ circuit' = construct_qft(n_qubits)
    /\ pc' = "forward"
    /\ UNCHANGED <<entry, a, b, n_qubits, basis, err, ip, psi, clbits, tvars>>

\* construct_inverse_qft(n_qubits), composed after the forward circuit
ConstructInverseQFT ==
    /\ pc = "forward"
    /\ circuit' = Compose(circuit, construct_inverse_qft(n_qubits))
    /\ pc' = "built"
    /\ UNCHANGED <<entry, a, b, n_qubits, basis, err, ip, psi, clbits, tvars>>

-----------------------------------------------------------------------------
(* Simulation                                                               *)

\* backend.run(...): the registers are initialised
Run ==
    /\ pc = "built"
    /\ psi' = BasisState(basis, circuit.num_qubits)
    /\ clbits' = [m \in 1..circuit.num_clbits |-> 0]
    /\ ip' = 1
    /\ pc' = "run"
    /\ UNCHANGED <<entry, a, b, n_qubits, basis, circuit, err, tvars>>

\* the next instruction is a unitary gate
ExecGate ==
    /\ pc = "run" /\ ip <= Len(circuit.data)
    /\ circuit.data[ip].name # "measure"
    /\ psi' = ApplyGate(psi, circuit.data[ip], circuit.num_qubits)
    /\ ip' = ip + 1
    /\ UNCHANGED <<entry, a, b, n_qubits, basis, circuit, err, pc, clbits, tvars>>

\* the next instruction is a measurement: any value of non-zero probability
ExecMeasure ==
    /\ pc = "run" /\ ip <= Len(circuit.data)
    /\ circuit.data[ip].name = "measure"
    /\ LET q == circuit.data[ip].qubits[1]
           c == circuit.data[ip].clbits[1]
       IN  \E v \in {0, 1} :
              /\ \E y \in Support(psi, circuit.num_qubits) : Bit(y, q) = v
              /\ psi' = Project(psi, q, v, circuit.num_qubits)
              /\ clbits' = [clbits EXCEPT ![c + 1] = v]
    /\ ip' = ip + 1
    /\ UNCHANGED <<entry, a, b, n_qubits, basis, circuit, err, pc, tvars>>

\* the circuit has ended
Finish ==
    /\ pc = "run" /\ ip > Len(circuit.data)
    /\ pc' = "done"
    /\ UNCHANGED <<entry, a, b, n_qubits, basis, circuit, err, ip, psi, clbits, tvars>>

-----------------------------------------------------------------------------
(* Specifications                                                           *)

\* the adder: quantum_sum(a, b) or construct_adder(a, b, n_qubits), then a run
Init ==
    /\ entry \in {"quantum_sum", "construct_adder"}
    /\ a \in 0..MaxVal
    /\ b \in 0..MaxVal
    /\ n_qubits \in IF entry = "construct_adder" THEN 0..MaxN ELSE {0}
    /\ basis = 0
    /\ circuit = NoCircuit
    /\ err = "none"
    /\ pc = "call"
    /\ ip = 0
    /\ psi = NoState
    /\ clbits = <<>>
    /\ TransformerIdle

Next == QuantumSum \/ ConstructAdder \/ Run \/ ExecGate \/ ExecMeasure \/ Finish

Spec == Init /\ [][Next]_vars

\* the Fourier transform followed by its inverse, run on a basis state
InitQFT ==
    /\ entry = "qft"
    /\ a = 0
    /\ b = 0
    /\ n_qubits \in 0..MaxN
    /\ basis \in 0..(Dim(n_qubits) - 1)
    /\ circuit = NoCircuit
    /\ err = "none"
    /\ pc = "call"
    /\ ip = 0
    /\ psi = NoState
    /\ clbits = <<>>
    /\ TransformerIdle

NextQFT == ConstructQFT \/ ConstructInverseQFT \/ Run \/ ExecGate \/ Finish

SpecQFT == InitQFT /\ [][NextQFT]_vars

-----------------------------------------------------------------------------
(* The transformer (specification SpecT)                                    *)

\* Number of qubits of the circuits handed to the transformer.
NumQubits == 3

\* Largest number of instructions of such a circuit.
MaxLen == 2

\* the instructions these circuits are made of
Vocabulary ==
    {Instr("x", <<0>>, <<>>, <<>>),
     Instr("id", <<1>>, <<>>, <<>>),
     Instr("sx", <<2>>, <<>>, <<>>),
     Instr("rz", <<1>>, <<>>, <<Angle(1, 3)>>),
     Instr("cx", <<0, 1>>, <<>>, <<>>),
     Instr("cx", <<2, 0>>, <<>>, <<>>),
     Instr("h", <<1>>, <<>>, <<>>),
     Instr("p", <<2>>, <<>>, <<Angle(3, 2)>>),
     Instr("cp", <<0, 2>>, <<>>, <<Angle(1, 2)>>),
     Instr("swap", <<1, 0>>, <<>>, <<>>),
     Instr("ccx", <<1, 2, 0>>, <<>>, <<>>),
     Instr("cswap", <<2, 0, 1>>, <<>>, <<>>),
     Instr("measure", <<0>>, <<0>>, <<>>)}

RECURSIVE SeqsUpTo(_, _)
SeqsUpTo(S, len) ==
    IF len = 0 THEN {<<>>}
    ELSE LET shorter == SeqsUpTo(S, len - 1)
         IN  shorter \cup {Append(s, e) : s \in shorter, e \in S}

\* the circuits handed to the transformer: the short circuits over the
\* vocabulary and, as in analyze_noise_effects, the circuits of quantum_sum
InputCircuits ==
    {[QuantumCircuit(NumQubits, NumQubits) EXCEPT !.data = s] :
        s \in SeqsUpTo(Vocabulary, MaxLen)}
    \cup {quantum_sum(x, y).circuit : x \in 0..MaxVal, y \in 0..MaxVal}

\* base_circuit = self.transformer.transform_circuit(circuit)
Transform ==
    /\ pc = "call" /\ entry = "transform"
    /\ base_circuit' = transform_circuit(circuit)
    /\ emitted' = LET trace == TransformTrace(circuit)
                  IN  [m \in 1..Len(trace) |->
                          [src |-> trace[m].src, pos |-> trace[m].pos]]
    /\ pc' = "transformed"
    /\ UNCHANGED <<entry, a, b, n_qubits, basis, circuit, err, ip, psi, clbits,
                   gate_counts, twice, twice_counts>>

\* gate_counts = self.transformer.get_gate_counts(base_circuit)
GetGateCounts ==
    /\ pc = "transformed"
    /\ gate_counts' = get_gate_counts(base_circuit)
    /\ pc' = "counted"
    /\ UNCHANGED <<entry, a, b, n_qubits, basis, circuit, err, ip, psi, clbits,
                   base_circuit, emitted, twice, twice_counts>>

\* transform_circuit applied to its own output
TransformAgain ==
    /\ pc = "counted"
    /\ twice' = transform_circuit(base_circuit)
    /\ pc' = "twice"
    /\ UNCHANGED <<entry, a, b, n_qubits, basis, circuit, err, ip, psi, clbits,
                   base_circuit, emitted, gate_counts, twice_counts>>

\* get_gate_counts of the circuit transformed twice
GetGateCountsAgain ==
    /\ pc = "twice"
    /\ twice_counts' = get_gate_counts(twice)
    /\ pc' = "done"
    /\ UNCHANGED <<entry, a, b, n_qubits, basis, circuit, err, ip, psi, clbits,
                   base_circuit, emitted, gate_counts, twice>>

InitT ==
    /\ entry = "transform"
    /\ a = 0
    /\ b = 0
    /\ n_qubits = 0
    /\ basis = 0
    /\ circuit \in InputCircuits
    /\ err = "none"
    /\ pc = "call"
    /\ ip = 0
    /\ psi = NoState
    /\ clbits = <<>>
    /\ TransformerIdle

NextT == Transform \/ GetGateCounts \/ TransformAgain \/ GetGateCountsAgain

SpecT == InitT /\ [][NextT]_vars

-----------------------------------------------------------------------------
(* Claims about the adder (specification Spec)                              *)

\* C1: for all a, b >= 0, the circuit quantum_sum(a, b) builds, run without
\* noise, always ends with classical bit i equal to bit i of a + b.
C1_SumOfQuantumSum ==
    (entry = "quantum_sum" /\ pc = "done") =>
        /\ err = "none"
        /\ \A i \in 0..(n_qubits - 1) : clbits[i + 1] = Bit(a + b, i)

\* C2: for n > 0 and a, b < 2^n with a + b >= 2^n, construct_adder(a, b, n)
\* raises no error and the noiseless outcome is (a + b) mod 2^n.
C2_Wraparound ==
    (/\ entry = "construct_adder" /\ pc # "call"
     /\ n_qubits > 0 /\ a < Pow2(n_qubits) /\ b < Pow2(n_qubits)
     /\ a + b >= Pow2(n_qubits)) =>
        /\ err = "none"
        /\ pc = "done" => Outcome = (a + b) % Pow2(n_qubits)

\* number of set bits of v
RECURSIVE PopCount(_)
PopCount(v) == IF v = 0 THEN 0 ELSE (v % 2) + PopCount(v \div 2)

\* a complete adder circuit over n qubits for the operand va: n qubits and n
\* classical bits, the flips of va, the two transforms, n rotations, and at
\* the end, and only there, qubit i measured into classical bit i
CompleteAdder(c, va, n) ==
    LET len == Len(c.data)
        qft == n + (n * (n - 1)) \div 2 + n \div 2
    IN  /\ c.num_qubits = n /\ c.num_clbits = n
        /\ len = PopCount(va) + 2 * qft + 2 * n
        /\ \A m \in 1..len :
              IF m > len - n
              THEN /\ c.data[m].name = "measure"
                   /\ c.data[m].qubits = <<m - (len - n) - 1>>
                   /\ c.data[m].clbits = <<m - (len - n) - 1>>
              ELSE c.data[m].name # "measure"

\* C3: construct_adder(a, b, n) fails with the range error exactly when
\* a >= 2^n or b >= 2^n, then no circuit was allocated, and otherwise it
\* returns a complete circuit.
C3_RangeError ==
    (entry = "construct_adder" /\ pc # "call") =>
        /\ err = "ValueError" <=> (a >= Pow2(n_qubits) \/ b >= Pow2(n_qubits))
        /\ err = "ValueError" => (circuit = NoCircuit /\ pc = "error")
        /\ err = "none" => CompleteAdder(circuit, a, n_qubits)
        /\ err \in {"none", "ValueError"}

\* C3's case: a = 5, b = 3, n = 2 has failed
C3_Witness ==
    /\ entry = "construct_adder" /\ a = 5 /\ b = 3 /\ n_qubits = 2
    /\ pc = "error" /\ err = "ValueError"

\* C9: for a = 3, b = 5 quantum_sum selects 4 qubits and the noiseless
\* outcome is the bitstring 1000, that is 8.
C9_ThreePlusFive ==
    (entry = "quantum_sum" /\ a = 3 /\ b = 5 /\ pc # "call") =>
        /\ n_qubits = 4
        /\ pc = "done" => (clbits = <<0, 0, 0, 1>> /\ Outcome = 8)

\* C9's case: the circuit of quantum_sum(3, 5) has run to its end
C9_Witness ==
    entry = "quantum_sum" /\ a = 3 /\ b = 5 /\ pc = "done" /\ Len(clbits) = 4

-----------------------------------------------------------------------------
(* Claims about the Fourier transform (specification SpecQFT)               *)

\* the second half of the round trip circuit is the first half gate by gate
\* inverted: reversed order (so the swaps come first), same gates on the
\* same qubits, every controlled-phase angle negated
InverseShape(c, n) ==
    LET len == Len(c.data) \div 2
    IN  /\ Len(c.data) = 2 * len
        /\ \A m \in 1..len :
              LET f == c.data[len + 1 - m]
                  g == c.data[len + m]
              IN  /\ g.name = f.name
                  /\ g.qubits = f.qubits
                  /\ m <= n \div 2 => g.name = "swap"
                  /\ IF f.name = "cp"
                     THEN /\ g.params[1].num = 0 - f.params[1].num
                          /\ g.params[1].den = f.params[1].den
                          /\ f.params[1].num # 0
                     ELSE g.params = f.params

\* C4: for n > 0 construct_inverse_qft(n) is the gate-by-gate inverse of
\* construct_qft(n), and the forward circuit followed by the inverse one
\* takes every basis state to itself.
C4_RoundTrip ==
    (entry = "qft" /\ n_qubits > 0) =>
        /\ pc \in {"built", "run", "done"} => InverseShape(circuit, n_qubits)
        /\ pc = "done" => Support(psi, n_qubits) = {basis}

\* C4's case: a round trip over two or more qubits from a state other than 0
C4_Witness ==
    entry = "qft" /\ n_qubits >= 2 /\ basis > 0 /\ pc = "done"

\* C8: construct_qft(n) rejects every n <= 0 with an error and returns no
\* circuit.
C8_RejectsNonPositive ==
    (entry = "qft" /\ n_qubits <= 0 /\ pc # "call") =>
        (err # "none" /\ circuit = NoCircuit)

-----------------------------------------------------------------------------
(* Claims about the transformer (specification SpecT)                       *)

\* C5: every instruction of the circuit transform_circuit returns has a name
\* in the basis set {cx, id, rz, sx, x}.
C5_OnlyBasisGates ==
    pc # "call" =>
        \A m \in 1..Len(base_circuit.data) :
            base_circuit.data[m].name \in {"cx", "id", "rz", "sx", "x"}

RECURSIVE SumOver(_, _)
SumOver(f, S) ==
    IF S = {} THEN 0
    ELSE LET g == CHOOSE g \in S : TRUE IN f[g] + SumOver(f, S \ {g})

\* C6: the values of get_gate_counts(transform_circuit(c)) sum to the number
\* of instructions of transform_circuit(c).
C6_CountsSumToTotal ==
    pc \in {"counted", "twice", "done"} =>
        SumOver(gate_counts, DOMAIN gate_counts) = Len(base_circuit.data)

\* C7: transforming a second time changes the count of no basis gate.
C7_SecondTransformSameCounts ==
    pc = "done" => twice_counts = gate_counts

\* the node went through the generic multi-qubit branch
Generic(node) ==
    /\ node.name # "measure"
    /\ node.name \notin {"cx", "id", "rz", "sx", "x"}
    /\ Len(node.qubits) > 1

\* C10: an instruction emitted in the decomposition of an operator on the
\* global qubits g_0..g_(k-1) acts on g_j wherever the local instruction it
\* comes from acts on local qubit j, operand by operand; distinct local
\* qubits get distinct global qubits, and no qubit outside g is touched.
C10_FaithfulRemapping ==
    pc # "call" =>
        \A m \in 1..Len(emitted) :
            LET node  == circuit.data[emitted[m].src]
                g     == node.qubits
                out   == base_circuit.data[m]
            IN  Generic(node) =>
                    LET local == Decompose(node)[emitted[m].pos]
                    IN  /\ Len(out.qubits) = Len(local.qubits)
                        /\ \A j \in 1..Len(local.qubits) :
                              /\ local.qubits[j] \in 0..(Len(g) - 1)
                              /\ out.qubits[j] = g[local.qubits[j] + 1]
                        /\ \A i, j \in 1..Len(g) : i # j => g[i] # g[j]
                        /\ \A i, j \in 1..Len(out.qubits) :
                              i # j => out.qubits[i] # out.qubits[j]
                        /\ {out.qubits[j] : j \in 1..Len(out.qubits)}
                              \subseteq {g[j] : j \in 1..Len(g)}

\* C10's case: a two-qubit instruction was emitted for an operator whose
\* global qubits are not its local ones
C10_Witness ==
    /\ pc = "transformed"
    /\ \E m \in 1..Len(emitted) :
          /\ Generic(circuit.data[emitted[m].src])
          /\ emitted[m].pos > 0
          /\ Len(base_circuit.data[m].qubits) = 2
          /\ circuit.data[emitted[m].src].qubits[1] # 0

\* the two instructions act on a common qubit
SharesQubit(A, B) ==
    \E i \in 1..Len(A.qubits), j \in 1..Len(B.qubits) : A.qubits[i] = B.qubits[j]

\* the output keeps the order of the input on shared qubits, and the order
\* of each decomposition
OrderKept ==
    pc # "call" =>
        /\ \A k \in 1..Len(circuit.data) :
              circuit.data[k].name # "measure" =>
                  \E m \in 1..Len(emitted) : emitted[m].src = k
        /\ \A m1, m2 \in 1..Len(emitted) :
              LET A == emitted[m1].src
                  B == emitted[m2].src
              IN  /\ (A < B /\ SharesQubit(circuit.data[A], circuit.data[B]))
                        => m1 < m2
                  /\ (A = B /\ m1 < m2) => emitted[m1].pos <= emitted[m2].pos
        /\ \A m \in 1..Len(emitted) :
              LET node == circuit.data[emitted[m].src]
              IN  (Generic(node) /\ Len(base_circuit.data[m].qubits) > 1) =>
                      base_circuit.data[m].name =
                          Decompose(node)[emitted[m].pos].name

\* C11: for input instructions A before B (neither a measurement) that
\* share a qubit, everything emitted for A precedes everything emitted for
\* B; the gates emitted for one instruction keep the order of its
\* decomposition; the input circuit is never changed.
C11_DependencyOrder ==
    []OrderKept /\ [][circuit' = circuit]_vars

\* C11's case: two instructions on a common qubit, the first one expanded
\* into several gates, have been transformed
C11_Witness ==
    /\ pc = "transformed"
    /\ \E A, B \in 1..Len(circuit.data) :
          /\ A < B
          /\ circuit.data[A].name \notin {"measure", "cx", "id", "rz", "sx", "x"}
          /\ circuit.data[B].name # "measure"
          /\ SharesQubit(circuit.data[A], circuit.data[B])

\* the instructions emitted for position p of input node k are exactly the
\* five gates rz(phi), sx, rz(theta), sx, rz(lambda) of `gate`, on qubit q
FiveGates(k, p, gate, q) ==
    LET idx == {m \in 1..Len(emitted) :
                   emitted[m].src = k /\ emitted[m].pos = p}
        angle(kind) ==
            [kind |-> kind, of |-> gate.name,
             num |-> IF gate.params = <<>> THEN 0 ELSE gate.params[1].num,
             den |-> IF gate.params = <<>> THEN 0 ELSE gate.params[1].den]
    IN  /\ Cardinality(idx) = 5
        /\ LET m0 == CHOOSE m \in idx : \A o \in idx : m <= o
           IN  /\ idx = m0..(m0 + 4)
               /\ \A m \in idx : /\ base_circuit.data[m].qubits = <<q>>
                                 /\ base_circuit.data[m].clbits = <<>>
               /\ base_circuit.data[m0].name = "rz"
               /\ base_circuit.data[m0].params = <<angle("phi")>>
               /\ base_circuit.data[m0 + 1].name = "sx"
               /\ base_circuit.data[m0 + 1].params = <<>>
               /\ base_circuit.data[m0 + 2].name = "rz"
               /\ base_circuit.data[m0 + 2].params = <<angle("theta")>>
               /\ base_circuit.data[m0 + 3].name = "sx"
               /\ base_circuit.data[m0 + 3].params = <<>>
               /\ base_circuit.data[m0 + 4].name = "rz"
               /\ base_circuit.data[m0 + 4].params = <<angle("lambda")>>

\* a single-qubit operator outside the basis that is no measurement
SingleNonBasis(node) ==
    /\ Len(node.qubits) = 1
    /\ node.name \notin {"measure", "cx", "id", "rz", "sx", "x"}

\* C12: a single-qubit operator on qubit q that is neither in the basis nor
\* a measurement is replaced by exactly rz(phi), sx, rz(theta), sx,
\* rz(lambda) on q, with its own Euler angles; so is every single-qubit
\* instruction of the decomposition of a multi-qubit operator, on the global
\* qubit of its local qubit.
C12_FiveGateExpansion ==
    pc # "call" =>
        \A k \in 1..Len(circuit.data) :
            LET node == circuit.data[k]
            IN  /\ SingleNonBasis(node) => FiveGates(k, 0, node, node.qubits[1])
                /\ Generic(node) =>
                      \A p \in 1..Len(Decompose(node)) :
                          LET local == Decompose(node)[p]
                          IN  Len(local.qubits) = 1 =>
                                  FiveGates(k, p, local,
                                            node.qubits[local.qubits[1] + 1])

\* C12's case: a single-qubit operator outside the basis and a multi-qubit
\* operator with single-qubit gates in its decomposition were transformed
C12_Witness ==
    /\ pc = "transformed"
    /\ \E k \in 1..Len(circuit.data) : SingleNonBasis(circuit.data[k])
    /\ \E k \in 1..Len(circuit.data) :
          /\ Generic(circuit.data[k])
          /\ \E p \in 1..Len(Decompose(circuit.data[k])) :
                Len(Decompose(circuit.data[k])[p].qubits) = 1

====
